---- MODULE Spec2Model ----
(***************************************************************************)
(* KDTree<Dim> of kdtree.cpp: the in-place QuickSelect construction        *)
(* (KDTree, construct, select, partition) and the nearest-neighbour search *)
(* (findNearestNeighbor, nearestIndex), with the comparison policy         *)
(* (smallerDimVal, shouldReplace, distanceSquared).                        *)
(*                                                                         *)
(* Indices are 0-based as in the source: list[k] of the source is          *)
(* At(list, k); coordinate d of a point p is Coord(p, d).  The recursion   *)
(* of the source is an explicit call stack whose top is the running call.  *)
(***************************************************************************)
EXTENDS Integers, Sequences, FiniteSets, Bags, TLC

\* KDTree<3> regionColors(tileColors): the instantiation of the template.
Dim == 3

\* Coordinates range over 0..MaxCoord.
MaxCoord == 1

\* newPoints holds at most MaxN points.
MaxN == 4

\* the runs checked for termination start from at most MaxFair points.
MaxFair == 3

\* partition on its own is called on lists of at most MaxPart points.
MaxPart == 4

\* smallerDimVal on its own is called with curDim from -MaxDimOff to Dim + MaxDimOff.
MaxDimOff == 1

VARIABLES
    input,      \* newPoints, the vector handed to the constructor
    points,     \* KDTree::points
    phase,      \* "new", "building", "built", "query", "crashed", "partition", "policy"
    stack,      \* the call stack, innermost call last
    ret,        \* the call that returned last, with its value
    snap,       \* list as it was when the running partition was entered
    query,      \* the argument of the running findNearestNeighbor
    mem,        \* what lies behind the end of points, once it has been read
    rd,         \* the elements of points read by the last step
    outcome,    \* what findNearestNeighbor gave back
    cmp         \* a direct call of smallerDimVal and its outcome

vars == <<input, points, phase, stack, ret, snap, query, mem, rd, outcome, cmp>>

----------------------------------------------------------------------------
(* Points *)

PointSet == [1..Dim -> 0..MaxCoord]

Origin == [d \in 1..Dim |-> 0]

Coord(p, d) == p[d + 1]

At(list, k) == list[k + 1]

InRange(list, k) == k \in 0..(Len(list) - 1)

RECURSIVE LexLess(_, _, _)
LexLess(a, b, d) ==
    IF d >= Dim THEN FALSE
    ELSE IF Coord(a, d) < Coord(b, d) THEN TRUE
    ELSE IF Coord(a, d) > Coord(b, d) THEN FALSE
    ELSE LexLess(a, b, d + 1)

\* Point<Dim>::operator<
PointLess(a, b) == LexLess(a, b, 0)

\* integer division of the source: truncation towards zero
CDiv2(x) == IF x >= 0 THEN x \div 2 ELSE -((-x) \div 2)

Abs(x) == IF x < 0 THEN -x ELSE x

----------------------------------------------------------------------------
(* Comparison policy *)

\* smallerDimVal without the tie-break: equal coordinates never precede
smallerDimValNoTie(first, second, curDim) ==
    IF curDim >= Dim \/ curDim >= Dim THEN FALSE
    ELSE Coord(first, curDim) < Coord(second, curDim)

\* smallerDimVal with <= for <: equal coordinates always precede
smallerDimValLeq(first, second, curDim) ==
    IF curDim >= Dim \/ curDim >= Dim THEN FALSE
    ELSE Coord(first, curDim) <= Coord(second, curDim)

\* bool KDTree::smallerDimVal(first, second, curDim)
smallerDimVal(first, second, curDim) ==
    IF curDim >= Dim \/ curDim >= Dim THEN FALSE
    ELSE IF Coord(first, curDim) < Coord(second, curDim) THEN TRUE
    ELSE IF Coord(first, curDim) = Coord(second, curDim) THEN PointLess(first, second)
    ELSE FALSE

\* double KDTree::distanceSquared(a, b)
RECURSIVE SumSq(_, _, _)
SumSq(a, b, i) ==
    IF i >= Dim THEN 0
    ELSE (Coord(a, i) - Coord(b, i)) * (Coord(a, i) - Coord(b, i)) + SumSq(a, b, i + 1)

distanceSquared(a, b) == SumSq(a, b, 0)

\* bool KDTree::shouldReplace(target, currentBest, potential)
shouldReplace(target, currentBest, potential) ==
    IF currentBest = potential THEN TRUE
    ELSE LET currDistance == distanceSquared(target, currentBest)
             potDistance == distanceSquared(target, potential)
         IN IF potDistance < currDistance THEN TRUE
            ELSE IF potDistance = currDistance THEN PointLess(potential, currentBest)
            ELSE FALSE

----------------------------------------------------------------------------
(* Call frames *)

Frame(fn, low, high, n, dim) ==
    [fn |-> fn, low |-> low, high |-> high, n |-> n, dim |-> dim, pc |-> "entry",
     pivotValue |-> Origin, storeIndex |-> 0, i |-> 0,
     medianIndex |-> 0, currentBest |-> 0, near |-> "none", far |-> "none"]

NoRet == [fn |-> "none", low |-> 0, high |-> 0, n |-> 0, dim |-> 0, val |-> 0]

Returned(f, v) ==
    [fn |-> f.fn, low |-> f.low, high |-> f.high, n |-> f.n, dim |-> f.dim, val |-> v]

NoOutcome == [kind |-> "none", pt |-> Origin]

NoMem == [known |-> FALSE, pt |-> Origin]

NoCmp == [first |-> Origin, second |-> Origin, curDim |-> 0, out |-> "none"]

Top == stack[Len(stack)]

Pop == SubSeq(stack, 1, Len(stack) - 1)

\* the running call becomes f and calls g
Call(f, g) == Append(Append(Pop, f), g)

\* a swap that loses list[a]: list[a] = list[b] alone
swapOverwrite(list, a, b) ==
    [k \in 1..Len(list) |-> IF k = a + 1 THEN At(list, b) ELSE list[k]]

\* std::swap(list[a], list[b])
swap(list, a, b) ==
    [k \in 1..Len(list) |->
        IF k = a + 1 THEN At(list, b) ELSE IF k = b + 1 THEN At(list, a) ELSE list[k]]

----------------------------------------------------------------------------
(* Construction *)

\* KDTree::KDTree(newPoints)
KDTreeCtor ==
    /\ phase = "new"
    /\ \/ /\ Len(input) = 0
          /\ phase' = "built"
          /\ UNCHANGED <<points, stack>>
       \/ /\ Len(input) # 0
          /\ points' = input
          /\ LET lo == 0
                 hi == Len(input) - 1
                 piv == CDiv2(lo + hi)
             IN stack' = <<Frame("construct", lo, hi, piv, 0)>>
          /\ phase' = "building"
    /\ UNCHANGED <<input, ret, snap, query, mem, rd, outcome, cmp>>

\* the two recursive calls of construct: the sublists left and right of n
constructLeft(low, high, n) == <<low, n - 1, CDiv2(low + n - 1)>>

constructRight(low, high, n) == <<n + 1, high, CDiv2(n + 1 + high)>>

\* KDTree::construct(list, low, high, n, dim)
construct ==
    /\ phase = "building"
    /\ stack # <<>>
    /\ Top.fn = "construct"
    /\ LET f == Top
           l == constructLeft(f.low, f.high, f.n)
           r == constructRight(f.low, f.high, f.n)
       IN \/ /\ f.pc = "entry"
             /\ f.low >= f.high
             /\ stack' = Pop
             /\ ret' = Returned(f, 0)
             /\ phase' = IF Pop = <<>> THEN "built" ELSE phase
          \/ /\ f.pc = "entry"
             /\ f.low < f.high
             /\ stack' = Call([f EXCEPT !.pc = "left"],
                              Frame("select", f.low, f.high, f.n, f.dim))
             /\ UNCHANGED <<ret, phase>>
          \/ /\ f.pc = "left"
             /\ stack' = Call([f EXCEPT !.pc = "right"],
                              Frame("construct", l[1], l[2], l[3], (f.dim + 1) % Dim))
             /\ UNCHANGED <<ret, phase>>
          \/ /\ f.pc = "right"
             /\ stack' = Call([f EXCEPT !.pc = "return"],
                              Frame("construct", r[1], r[2], r[3], (f.dim + 1) % Dim))
             /\ UNCHANGED <<ret, phase>>
          \/ /\ f.pc = "return"
             /\ stack' = Pop
             /\ ret' = Returned(f, 0)
             /\ phase' = IF Pop = <<>> THEN "built" ELSE phase
    /\ UNCHANGED <<input, points, snap, query, mem, rd, outcome, cmp>>

\* select going on with the pivot still in the range
selectRangeKeepPivot(low, high, n, pivotIndex) ==
    IF n < pivotIndex THEN <<low, pivotIndex>> ELSE <<pivotIndex, high>>

\* the range select goes on with once partition put the pivot at pivotIndex # n
selectRange(low, high, n, pivotIndex) ==
    IF n < pivotIndex THEN <<low, pivotIndex - 1>> ELSE <<pivotIndex + 1, high>>

\* KDTree::select(list, low, high, n, dim)
select ==
    /\ phase = "building"
    /\ stack # <<>>
    /\ Top.fn = "select"
    /\ LET f == Top
           pivotIndex == ret.val
           next == selectRange(f.low, f.high, f.n, pivotIndex)
       IN \/ /\ f.pc = "entry"
             /\ f.low = f.high
             /\ stack' = Pop
             /\ ret' = Returned(f, 0)
          \/ /\ f.pc = "entry"
             /\ f.low # f.high
             /\ stack' = Call([f EXCEPT !.pc = "partitioned"],
                              Frame("partition", f.low, f.high, f.n, f.dim))
             /\ UNCHANGED ret
          \/ /\ f.pc = "partitioned"
             /\ f.n = pivotIndex
             /\ stack' = Pop
             /\ ret' = Returned(f, 0)
          \/ /\ f.pc = "partitioned"
             /\ f.n # pivotIndex
             /\ stack' = Call([f EXCEPT !.pc = "return"],
                              Frame("select", next[1], next[2], f.n, f.dim))
             /\ UNCHANGED ret
          \/ /\ f.pc = "return"
             /\ stack' = Pop
             /\ ret' = Returned(f, 0)
    /\ UNCHANGED <<input, points, phase, snap, query, mem, rd, outcome, cmp>>

\* KDTree::partition(list, low, high, pivotIndex, dim); the frame's n is pivotIndex
partition ==
    /\ phase \in {"building", "partition"}
    /\ stack # <<>>
    /\ Top.fn = "partition"
    /\ LET f == Top
       IN \/ /\ f.pc = "entry"
             /\ snap' = points
             /\ points' = swap(points, f.n, f.high)
             /\ stack' = Append(Pop, [f EXCEPT !.pc = "loop",
                                               !.pivotValue = At(points, f.n),
                                               !.storeIndex = f.low,
                                               !.i = f.low])
             /\ UNCHANGED ret
          \/ /\ f.pc = "loop"
             /\ f.i < f.high
             /\ smallerDimVal(At(points, f.i), f.pivotValue, f.dim)
             /\ points' = swap(points, f.i, f.storeIndex)
             /\ stack' = Append(Pop, [f EXCEPT !.storeIndex = f.storeIndex + 1,
                                               !.i = f.i + 1])
             /\ UNCHANGED <<ret, snap>>
          \/ /\ f.pc = "loop"
             /\ f.i < f.high
             /\ ~smallerDimVal(At(points, f.i), f.pivotValue, f.dim)
             /\ stack' = Append(Pop, [f EXCEPT !.i = f.i + 1])
             /\ UNCHANGED <<ret, snap, points>>
          \/ /\ f.pc = "loop"
             /\ f.i >= f.high
             /\ points' = swap(points, f.high, f.storeIndex)
             /\ stack' = Pop
             /\ ret' = Returned(f, f.storeIndex)
             /\ UNCHANGED snap
    /\ UNCHANGED <<input, phase, query, mem, rd, outcome, cmp>>

----------------------------------------------------------------------------
(* Nearest-neighbour search *)

\* Point<Dim> KDTree::findNearestNeighbor(query): the call of nearestIndex.
\* points.size() - 1 is -1 as an int when points is empty.
findNearestNeighbor ==
    /\ phase = "built"
    /\ \E q \in PointSet :
          /\ query' = q
          /\ stack' = <<Frame("nearestIndex", 0, Len(points) - 1, 0, 0)>>
    /\ phase' = "query"
    /\ outcome' = NoOutcome
    /\ mem' = NoMem
    /\ rd' = {}
    /\ UNCHANGED <<input, points, ret, snap, cmp>>

\* the indices at which the next step of the search reads points[...]
ReadsOfStep ==
    IF phase # "query" THEN {}
    ELSE IF stack = <<>> THEN {ret.val}
    ELSE IF Top.pc = "near" THEN {ret.val, Top.medianIndex}
    ELSE IF Top.pc = "far" THEN {Top.currentBest, ret.val}
    ELSE {}

\* the step reads behind the end of points, where nothing was read before
ReadsUnknown == \E k \in ReadsOfStep : ~InRange(points, k) /\ ~mem.known

\* the range the reading call searches
ReadRange == IF stack = <<>> THEN <<0, Len(points) - 1>> ELSE <<Top.low, Top.high>>

Read(k) == [idx |-> k, low |-> ReadRange[1], high |-> ReadRange[2]]

\* what a read behind the end of points may find there
Garbage == IF ReadsUnknown THEN PointSet ELSE {mem.pt}

Remember(g) ==
    IF \E k \in ReadsOfStep : ~InRange(points, k) THEN [known |-> TRUE, pt |-> g] ELSE mem

\* points[k]; g is what lies behind the end
PointAt(k, g) == IF InRange(points, k) THEN At(points, k) ELSE g

\* the child searched first: left when query precedes the median along dim
nearChild(q, median, dim) == IF smallerDimVal(q, median, dim) THEN "left" ELSE "right"

\* the child searched second
farChild(currentBest, medianIndex) == IF currentBest >= medianIndex THEN "left" ELSE "right"

ChildFrame(f, medianIndex, side) ==
    IF side = "left"
    THEN Frame("nearestIndex", f.low, medianIndex - 1, 0, (f.dim + 1) % Dim)
    ELSE Frame("nearestIndex", medianIndex + 1, f.high, 0, (f.dim + 1) % Dim)

\* whether the far child is searched: the split plane is within the best
\* distance.  int diff = std::abs(...); diff = diff * diff, on integer coordinates
withinRadius(q, median, best, dim) ==
    LET diff == Abs(Coord(median, dim) - Coord(q, dim))
    IN diff * diff <= distanceSquared(q, best)

\* int KDTree::nearestIndex(query, low, high, dim)
nearestIndex ==
    /\ phase = "query"
    /\ stack # <<>>
    /\ Top.fn = "nearestIndex"
    /\ LET f == Top
           medianIndex == CDiv2(f.low + f.high)
       IN \/ /\ f.pc = "entry"
             /\ f.low > f.high
             /\ stack' = Pop
             /\ ret' = Returned(f, f.low)
             /\ rd' = {}
             /\ UNCHANGED mem
          \/ /\ f.pc = "entry"
             /\ f.low <= f.high
             /\ LET side == nearChild(query, At(points, medianIndex), f.dim)
                IN stack' = Call([f EXCEPT !.pc = "near", !.medianIndex = medianIndex,
                                           !.near = side],
                                 ChildFrame(f, medianIndex, side))
             /\ rd' = {Read(medianIndex)}
             /\ UNCHANGED <<ret, mem>>
          \/ /\ f.pc = "near"
             /\ \E g \in Garbage :
                   LET first == ret.val
                       currentBest ==
                           IF shouldReplace(query, PointAt(first, g),
                                            PointAt(f.medianIndex, g))
                           THEN f.medianIndex ELSE first
                       side == farChild(currentBest, f.medianIndex)
                   IN /\ mem' = Remember(g)
                      /\ rd' = {Read(first), Read(f.medianIndex), Read(currentBest)}
                      /\ \/ /\ withinRadius(query, PointAt(f.medianIndex, g),
                                            PointAt(currentBest, g), f.dim)
                            /\ stack' = Call([f EXCEPT !.pc = "far",
                                                       !.currentBest = currentBest,
                                                       !.far = side],
                                             ChildFrame(f, f.medianIndex, side))
                            /\ UNCHANGED ret
                         \/ /\ ~withinRadius(query, PointAt(f.medianIndex, g),
                                             PointAt(currentBest, g), f.dim)
                            /\ stack' = Pop
                            /\ ret' = Returned(f, currentBest)
          \/ /\ f.pc = "far"
             /\ \E g \in Garbage :
                   LET potentialBestIndex == ret.val
                       currentBest ==
                           IF shouldReplace(query, PointAt(f.currentBest, g),
                                            PointAt(potentialBestIndex, g))
                           THEN potentialBestIndex ELSE f.currentBest
                   IN /\ mem' = Remember(g)
                      /\ rd' = {Read(f.currentBest), Read(potentialBestIndex)}
                      /\ stack' = Pop
                      /\ ret' = Returned(f, currentBest)
    /\ UNCHANGED <<input, points, phase, snap, query, outcome, cmp>>

\* findNearestNeighbor returns points[nearestIndex(query, 0, points.size() - 1, 0)]
findNearestNeighborReturn ==
    /\ phase = "query"
    /\ stack = <<>>
    /\ \E g \in Garbage :
          /\ mem' = Remember(g)
          /\ outcome' = [kind |-> "point", pt |-> PointAt(ret.val, g)]
    /\ rd' = {Read(ret.val)}
    /\ phase' = "built"
    /\ UNCHANGED <<input, points, stack, ret, snap, query, cmp>>

\* a read of points[k] with k outside 0..size-1 is undefined: besides finding
\* some point-sized garbage there, the query may end without any point
outOfBoundsFault ==
    /\ phase = "query"
    /\ ReadsUnknown
    /\ rd' = {Read(k) : k \in {j \in ReadsOfStep : ~InRange(points, j)}}
    /\ outcome' = [kind |-> "undefined", pt |-> Origin]
    /\ phase' = "crashed"
    /\ UNCHANGED <<input, points, stack, ret, snap, query, mem, cmp>>

----------------------------------------------------------------------------
(* The comparison policy called on its own *)

\* a call smallerDimVal(first, second, curDim) and what the caller gets
smallerDimValCall ==
    /\ phase = "policy"
    /\ cmp.out = "pending"
    /\ \/ /\ cmp.curDim >= 0
          /\ cmp' = [cmp EXCEPT !.out =
                        IF smallerDimVal(cmp.first, cmp.second, cmp.curDim)
                        THEN "true" ELSE "false"]
       \/ /\ cmp.curDim < 0
          /\ \E o \in {"true", "false", "undefined"} : cmp' = [cmp EXCEPT !.out = o]
    /\ UNCHANGED <<input, points, phase, stack, ret, snap, query, mem, rd, outcome>>

----------------------------------------------------------------------------
(* Specifications *)

\* the vectors of n points
Vectors(n) == [1..n -> PointSet]

Init ==
    /\ \E n \in 0..MaxN : input \in Vectors(n)
    /\ points = <<>>
    /\ phase = "new"
    /\ stack = <<>>
    /\ ret = NoRet
    /\ snap = <<>>
    /\ query = Origin
    /\ mem = NoMem
    /\ rd = {}
    /\ outcome = NoOutcome
    /\ cmp = NoCmp

Next ==
    \/ KDTreeCtor
    \/ construct
    \/ select
    \/ partition
    \/ findNearestNeighbor
    \/ nearestIndex
    \/ findNearestNeighborReturn
    \/ outOfBoundsFault

Spec == Init /\ [][Next]_vars

\* a run of the constructor followed by queries goes on while a call is
\* running: the program is sequential and every step is the running call's
InitFair ==
    /\ \E n \in 0..MaxFair : input \in Vectors(n)
    /\ points = <<>>
    /\ phase = "new"
    /\ stack = <<>>
    /\ ret = NoRet
    /\ snap = <<>>
    /\ query = Origin
    /\ mem = NoMem
    /\ rd = {}
    /\ outcome = NoOutcome
    /\ cmp = NoCmp

FairSpec == InitFair /\ [][Next]_vars
                     /\ WF_vars(KDTreeCtor \/ construct \/ select \/ partition)
                     /\ WF_vars(nearestIndex \/ findNearestNeighborReturn)

\* partition called on any list with low <= pivotIndex <= high
InitPartition ==
    /\ \E n \in 1..MaxPart : input \in Vectors(n)
    /\ points = input
    /\ phase = "partition"
    /\ \E low \in 0..(Len(input) - 1) :
         \E high \in low..(Len(input) - 1) :
           \E pivotIndex \in low..high :
             \E dim \in 0..(Dim - 1) :
                stack = <<Frame("partition", low, high, pivotIndex, dim)>>
    /\ ret = NoRet
    /\ snap = input
    /\ query = Origin
    /\ mem = NoMem
    /\ rd = {}
    /\ outcome = NoOutcome
    /\ cmp = NoCmp

SpecPartition == InitPartition /\ [][partition]_vars

\* smallerDimVal called with any curDim
InitPolicy ==
    /\ input = <<>>
    /\ points = <<>>
    /\ phase = "policy"
    /\ stack = <<>>
    /\ ret = NoRet
    /\ snap = <<>>
    /\ query = Origin
    /\ mem = NoMem
    /\ rd = {}
    /\ outcome = NoOutcome
    /\ cmp \in [first : PointSet, second : PointSet,
                curDim : (0 - MaxDimOff)..(Dim + MaxDimOff), out : {"pending"}]

SpecPolicy == InitPolicy /\ [][smallerDimValCall]_vars

----------------------------------------------------------------------------
(* Properties *)

Range(seq) == {seq[k] : k \in DOMAIN seq}

BagOf(seq) == [p \in Range(seq) |-> Cardinality({k \in DOMAIN seq : seq[k] = p})]

\* a comes before b along dimension d, ties broken by the order of the points
Precedes(a, b, d) ==
    \/ Coord(a, d) < Coord(b, d)
    \/ Coord(a, d) = Coord(b, d) /\ PointLess(a, b)

\* a findNearestNeighbor call has ended
QueryEnded == phase \in {"built", "crashed"} /\ outcome.kind # "none"

\* p is the nearest point of P to q, the lexicographically smallest of the nearest
Nearest(p, q, P) ==
    /\ p \in P
    /\ \A o \in P :
          /\ distanceSquared(q, o) >= distanceSquared(q, p)
          /\ distanceSquared(q, o) = distanceSquared(q, p) => ~PointLess(o, p)

\* C1: on a tree built from a non-empty P, findNearestNeighbor(q) returns a
\* point of P at minimum squared distance to q, the lexicographically smallest
\* of the points at that distance.
C1_NearestNeighbor ==
    (QueryEnded /\ Len(input) > 0) =>
        (outcome.kind = "point" /\ Nearest(outcome.pt, query, Range(input)))

\* C2: on a tree built from zero points, findNearestNeighbor ends in an
\* explicit empty-tree failure and never reads an element of points.
C2_EmptyTreeFails ==
    (Len(input) = 0 /\ phase \in {"built", "query", "crashed"}) =>
        (rd = {} /\ outcome.kind \in {"none", "emptyTree"})

\* C3: after the constructor copied the input, points is at every step of
\* partition, select and construct, and at the end, a permutation of the
\* input: the same multiset of points.
C3_Permutation ==
    phase \in {"building", "built", "query", "crashed"} => BagOf(points) = BagOf(input)

\* a partition is under way on an input with a duplicate, and has reordered it
C3_Witness ==
    /\ phase = "building"
    /\ stack # <<>>
    /\ Top.fn = "partition"
    /\ Top.pc = "loop"
    /\ points # input
    /\ Cardinality(Range(input)) < Len(input)

\* the index ranges of the recursive midpoint split, each with its dimension
RECURSIVE Splits(_, _, _)
Splits(low, high, d) ==
    IF low > high THEN {}
    ELSE LET m == (low + high) \div 2
         IN {<<low, high, d>>} \cup Splits(low, m - 1, (d + 1) % Dim)
                               \cup Splits(m + 1, high, (d + 1) % Dim)

\* C4 as stated: in every range of the split, each point left of the median
\* precedes it under smallerDimVal and no point right of the median precedes it.
C4_LeftPrecedes ==
    phase = "built" =>
        \A s \in Splits(0, Len(points) - 1, 0) :
            LET m == (s[1] + s[2]) \div 2
            IN /\ \A k \in s[1]..(m - 1) : Precedes(At(points, k), At(points, m), s[3])
               /\ \A k \in (m + 1)..s[2] : ~Precedes(At(points, k), At(points, m), s[3])

\* C4: in every range of the split, the median precedes no point left of it
\* (each such point precedes the median or is equal to it, so its coordinate
\* is <= the median's) and no point right of the median precedes the median
\* (so its coordinate is >= the median's).
C4_MedianSplit ==
    phase = "built" =>
        \A s \in Splits(0, Len(points) - 1, 0) :
            LET m == (s[1] + s[2]) \div 2
            IN /\ \A k \in s[1]..(m - 1) :
                     /\ ~Precedes(At(points, m), At(points, k), s[3])
                     /\ Coord(At(points, k), s[3]) <= Coord(At(points, m), s[3])
               /\ \A k \in (m + 1)..s[2] :
                     /\ ~Precedes(At(points, k), At(points, m), s[3])
                     /\ Coord(At(points, k), s[3]) >= Coord(At(points, m), s[3])

\* a built tree of four points whose root has an equal point to its left and
\* whose right range was split along dimension 1 by select
C4_Witness ==
    /\ phase = "built"
    /\ Len(points) = 4
    /\ At(points, 0) = At(points, 1)
    /\ At(points, 2) # At(points, 3)
    /\ points # input

\* C5: findNearestNeighbor(p) for a point p of the non-empty input returns a
\* point equal to p.
C5_SelfQuery ==
    (QueryEnded /\ query \in Range(input)) =>
        (outcome.kind = "point" /\ outcome.pt = query)

RangeSize(f) == IF f.high < f.low THEN 0 ELSE f.high - f.low + 1

\* each recursive call of select, construct and nearestIndex is on a strictly
\* smaller range inside its caller's, and select's n is inside its range
RangesShrink ==
    /\ \A k \in 2..Len(stack) :
          stack[k].fn = stack[k - 1].fn =>
              /\ RangeSize(stack[k]) < RangeSize(stack[k - 1])
              /\ stack[k].low >= stack[k - 1].low
              /\ stack[k].high <= stack[k - 1].high
    /\ \A k \in 1..Len(stack) :
          stack[k].fn = "select" => stack[k].low <= stack[k].n /\ stack[k].n <= stack[k].high

\* C6: construction ends and every search ends; each recursive call of
\* select, construct and nearestIndex is on a strictly smaller index range,
\* and in select the target n stays inside the range.
C6_Terminates ==
    /\ []RangesShrink
    /\ []<>(phase \in {"built", "crashed"})

\* a search on a tree of three points, one of them twice in the input, is
\* three calls of nearestIndex deep
C6_Witness ==
    /\ phase = "query"
    /\ Len(points) = 3
    /\ Cardinality(Range(input)) < Len(input)
    /\ Len(stack) = 3
    /\ \A k \in 1..3 : stack[k].fn = "nearestIndex"

\* C7: smallerDimVal called with curDim outside [0, Dim) ends in an error and
\* returns no boolean.
C7_InvalidDimFailsFast ==
    (cmp.out # "pending" /\ cmp.curDim \notin 0..(Dim - 1)) => cmp.out = "error"

\* C8: on a non-empty tree every index at which the search reads points is in
\* [0, n-1] and inside the range searched by the reading call: the sentinel
\* of an exhausted range is never read.
C8_SentinelNeverRead ==
    Len(input) > 0 =>
        \A r \in rd : InRange(points, r.idx) /\ r.idx >= r.low /\ r.idx <= r.high

\* C9: the second recursion of nearestIndex goes into the child the first
\* recursion did not visit.
C9_FarIsOtherChild ==
    \A k \in 1..Len(stack) :
        (stack[k].fn = "nearestIndex" /\ stack[k].far # "none") =>
            stack[k].far # stack[k].near

\* C10: partition returns r in [low, high] with the pivot at r, every element
\* of [low, r-1] preceding the pivot along dim, no element of [r+1, high]
\* preceding it, and every element outside [low, high] unchanged.
C10_Partition ==
    (phase = "partition" /\ stack = <<>>) =>
        LET r == ret.val
            pivotValue == At(input, ret.n)
        IN /\ ret.low <= r /\ r <= ret.high
           /\ At(points, r) = pivotValue
           /\ \A k \in ret.low..(r - 1) : Precedes(At(points, k), pivotValue, ret.dim)
           /\ \A k \in (r + 1)..ret.high : ~Precedes(At(points, k), pivotValue, ret.dim)
           /\ \A k \in 0..(Len(input) - 1) :
                 (k < ret.low \/ k > ret.high) => At(points, k) = At(input, k)

\* partition returned with elements on both sides of the pivot, one of them
\* equal to the pivot along dim, and an element outside the range
C10_Witness ==
    /\ phase = "partition"
    /\ stack = <<>>
    /\ ret.low < ret.val
    /\ ret.val < ret.high
    /\ ret.high - ret.low + 1 < Len(input)
    /\ points # input
    /\ \E k \in (ret.val + 1)..ret.high :
          Coord(At(points, k), ret.dim) = Coord(At(points, ret.val), ret.dim)

====
